---- MODULE Spec2Model ----
(***************************************************************************)
(* Model of src/src/prefix.rs: the bit-code accumulator Code, the          *)
(* canonical code assignment and two-heap merge of                         *)
(* PrefixTree::from_lengths / collect_from_heap, and the traversal         *)
(* PrefixTree::walk.                                                       *)
(*                                                                         *)
(* Option<T> is a sequence of length at most one: None is <<>> and         *)
(* Some(x) is <<x>>.  A Node is a record with the fields of struct Node;   *)
(* a Box<Node> is the node value itself (boxes are owned, never shared).   *)
(* A BinaryHeap<Box<Node>> is the set of the nodes it holds: pop removes   *)
(* a node of greatest significance, and which of several equally           *)
(* significant nodes comes out is a choice (Ord for Node compares          *)
(* significance only, and the heap documents no order among equals).       *)
(***************************************************************************)
EXTENDS Integers, Sequences, FiniteSets

VARIABLES
    pc,            \* where the program is: inside from_lengths, ready, panicked, code
    code_lengths,  \* argument of from_lengths
    leaves,        \* from_lengths: leaves / PrefixTree.leaves
    nodes_left,    \* from_lengths: heap of the leaves whose top bit is 0
    nodes_right,   \* from_lengths: heap of the leaves whose top bit is 1
    node_1,        \* collect_from_heap: first node popped in the last iteration
    node_2,        \* collect_from_heap: second node popped in the last iteration
    left_sub,      \* from_lengths: value of collect_from_heap(&mut nodes_left)
    root,          \* PrefixTree.root
    current,       \* PrefixTree.current
    bits,          \* history: normalized_direction of every walk call so far
    rets,          \* history: return value of every walk call so far
    arg,           \* history: the u8 argument of the last walk or push_bit call
    code,          \* a Code value under push / push_bit
    appended,      \* history: the bits appended to code, in append order
    fits           \* history: every pushed value so far fit in its stated length

vars == <<pc, code_lengths, leaves, nodes_left, nodes_right, node_1, node_2,
          left_sub, root, current, bits, rets, arg, code, appended, fits>>

treeVars == <<code_lengths, leaves, nodes_left, nodes_right, node_1, node_2,
              left_sub, root, current, bits, rets>>

codeVars == <<code, appended, fits>>

----------------------------------------------------------------------------
(* Bounds of the model.                                                    *)

MaxSyms == 3        \* enumerated tables have at most this many symbols
MaxCodeLen == 2     \* and code lengths 0..MaxCodeLen
MaxWalks == 4       \* walk calls per tree (the test stream may run longer)
MaxBits == 5        \* total bits appended to a Code (the test push may exceed it)
MaxPushLen == 2     \* enumerated push calls push 0..MaxPushLen bits

----------------------------------------------------------------------------
(* Integer helpers: u32 arithmetic.  Every value the bounded model         *)
(* computes stays far below 2^31 (codes of at most a few bits, buffers of  *)
(* at most MaxBits + 1 bits, counts of at most eight symbols), so the      *)
(* truncation of << at bit 32, the wrap of + and the saturation of         *)
(* saturating_add are never in play; a value that left this range would    *)
(* stop the model checker with an overflow error, not pass unnoticed.      *)

RECURSIVE Pow2(_)
Pow2(n) == IF n = 0 THEN 1 ELSE 2 * Pow2(n - 1)

\* x << n
Shl32(x, n) == x * Pow2(n)

\* x >> n
Shr(x, n) == x \div Pow2(n)

\* a | b
RECURSIVE BitOr(_, _)
BitOr(a, b) ==
    IF a = 0 THEN b
    ELSE IF b = 0 THEN a
    ELSE (IF a % 2 = 1 \/ b % 2 = 1 THEN 1 ELSE 0) + 2 * BitOr(a \div 2, b \div 2)

\* u32::saturating_add(x, 1)
SaturatingInc(x) == x + 1

\* BitIndex::bit_index of the bitstream module: the bit of v at position i
BitIndex(v, i) == (v \div Pow2(i)) % 2

None == << >>
Some(x) == << x >>

----------------------------------------------------------------------------
(* Code                                                                    *)

CodeNew == [buffer |-> 0, length |-> 0]

CodeFrom(buffer, length) == [buffer |-> buffer, length |-> length]

\* Code::push, had it put the new bits above the old ones
PushAbove(c, buffer, length) ==
    [buffer |-> BitOr(Shl32(buffer, c.length), c.buffer),
     length |-> c.length + length]

\* Code::push
Push(c, buffer, length) ==
    [buffer |-> BitOr(Shl32(c.buffer, length), buffer),
     length |-> c.length + length]

\* the match of push_bit and of walk on its u8 argument
NormalizeBit(bit) == IF bit = 0 THEN 0 ELSE IF bit = 1 THEN 1 ELSE 1

\* Code::push_bit
PushBit(c, bit) ==
    [buffer |-> BitOr(Shl32(c.buffer, 1), NormalizeBit(bit)),
     length |-> c.length + 1]

----------------------------------------------------------------------------
(* Node                                                                    *)

MkNode(value, significance, cd, left, right) ==
    [value |-> value, significance |-> significance, code |-> cd,
     left |-> left, right |-> right]

NodeNew == MkNode(None, 0, CodeNew, None, None)

\* impl Ord for Node: a is a greatest element of heap h
IsGreatest(a, h) == \A b \in h : b.significance <= a.significance

----------------------------------------------------------------------------
(* PrefixTree::from_lengths, lines 240-298: the canonical code assignment  *)
(* and the partition of the leaves into the two heaps.  A table is a       *)
(* sequence; symbol j of the source is position j + 1 here.                *)

\* code_lengths.iter().max().unwrap_or(&0)
RECURSIVE MaxLength(_)
MaxLength(lens) ==
    IF lens = << >> THEN 0
    ELSE LET m == MaxLength(Tail(lens))
         IN  IF Head(lens) > m THEN Head(lens) ELSE m

\* the fold of lines 251-254 over the first k code lengths
RECURSIVE OccFold(_, _)
OccFold(lens, k) ==
    IF k = 0 THEN [i \in 0..255 |-> 0]
    ELSE LET acc == OccFold(lens, k - 1)
             idx == lens[k]
         IN  [acc EXCEPT ![idx] = SaturatingInc(acc[idx])]

\* occurances, had line 259 been left out
OccurancesKeepZero(lens) == OccFold(lens, Len(lens))

\* occurances once line 259 has run
Occurances(lens) == [OccFold(lens, Len(lens)) EXCEPT ![0] = 0]

\* the variable code after iteration i of the loop of lines 261-264
RECURSIVE LoopCode(_, _)
LoopCode(occ, i) ==
    IF i = 0 THEN 0 ELSE Shl32(LoopCode(occ, i - 1) + occ[i - 1], 1)

\* next_code when the loop of lines 261-264 ends
NextCodeInit(lens) ==
    LET occ == Occurances(lens)
    IN  [i \in 0..MaxLength(lens) |-> IF i = 0 THEN 0 ELSE LoopCode(occ, i)]

\* next_code and codes after the first j iterations of the loop of lines 268-274
RECURSIVE AssignLoop(_, _)
AssignLoop(lens, j) ==
    IF j = 0
    THEN [next_code |-> NextCodeInit(lens), codes |-> << >>]
    ELSE LET prev == AssignLoop(lens, j - 1)
             len == lens[j]
         IN  IF len # 0
             THEN [next_code |-> [prev.next_code EXCEPT
                                    ![len] = prev.next_code[len] + 1],
                   codes |-> Append(prev.codes, Some(prev.next_code[len]))]
             ELSE [next_code |-> prev.next_code,
                   codes |-> Append(prev.codes, None)]

Codes(lens) == AssignLoop(lens, Len(lens)).codes

\* the node built at lines 283-289 for the symbol at position k
LeafNode(lens, codes, k) ==
    MkNode(Some(k - 1), codes[k][1], CodeFrom(codes[k][1], lens[k]), None, None)

\* leaves, nodes_left and nodes_right after the first k iterations of the
\* loop of lines 281-298
RECURSIVE LeafLoop(_, _, _)
LeafLoop(lens, codes, k) ==
    IF k = 0
    THEN [leaves |-> << >>, nodes_left |-> {}, nodes_right |-> {}]
    ELSE LET prev == LeafLoop(lens, codes, k - 1)
         IN  IF codes[k] = None THEN prev
             ELSE LET node == LeafNode(lens, codes, k)
                      top == BitIndex(codes[k][1], lens[k] - 1)
                  IN  [leaves |-> Append(prev.leaves, node),
                       nodes_left |-> IF top = 0 THEN prev.nodes_left \cup {node}
                                      ELSE prev.nodes_left,
                       nodes_right |-> IF top = 1 THEN prev.nodes_right \cup {node}
                                       ELSE prev.nodes_right]

\* the parent, had the two popped nodes been attached the other way round
ParentSwapped(n1, n2) ==
    LET parent_code == Shr(n1.code.buffer, 1)
        parent_len == IF n1.code.length # 0 THEN n1.code.length - 1 ELSE 0
    IN  MkNode(None, parent_code, CodeFrom(parent_code, parent_len),
               Some(n1), Some(n2))

\* collect_from_heap, lines 360-372: the parent of the two popped nodes
Parent(n1, n2) ==
    LET parent_code == Shr(n1.code.buffer, 1)
        parent_len == IF n1.code.length # 0 THEN n1.code.length - 1 ELSE 0
    IN  MkNode(None, parent_code, CodeFrom(parent_code, parent_len),
               Some(n2), Some(n1))

----------------------------------------------------------------------------
(* PrefixTree::walk                                                        *)

\* the match of walk, had its last arm given 0
NormalizeDirectionToZero(direction) ==
    IF direction = 0 THEN 0 ELSE IF direction = 1 THEN 1 ELSE 0

\* lines 315-324
NormalizeDirection(direction) ==
    IF direction = 0 THEN 0 ELSE IF direction = 1 THEN 1 ELSE 1

\* walk, had the arm for direction 1 left out the reset of line 342
WalkStepNoResetRight(cur, rt, direction) ==
    LET nd == NormalizeDirection(direction)
        child == IF nd = 0 THEN cur.left ELSE cur.right
    IN  IF child # None
        THEN LET v == child[1]
             IN  IF v.value # None
                 THEN [current |-> IF nd = 0 THEN rt ELSE v, ret |-> Some(v.value[1])]
                 ELSE [current |-> v, ret |-> None]
        ELSE [current |-> cur, ret |-> None]

\* walk, had it left the cursor on the leaf it reached
WalkStepParkOnLeaf(cur, rt, direction) ==
    LET nd == NormalizeDirection(direction)
        child == IF nd = 0 THEN cur.left ELSE cur.right
    IN  IF child # None
        THEN LET v == child[1]
             IN  [current |-> v,
                  ret |-> IF v.value # None THEN Some(v.value[1]) ELSE None]
        ELSE [current |-> cur, ret |-> None]

\* walk, had a missing child sent the cursor back to the root
WalkStepResetOnMissing(cur, rt, direction) ==
    LET nd == NormalizeDirection(direction)
        child == IF nd = 0 THEN cur.left ELSE cur.right
    IN  IF child # None
        THEN LET v == child[1]
             IN  IF v.value # None
                 THEN [current |-> rt, ret |-> Some(v.value[1])]
                 ELSE [current |-> v, ret |-> None]
        ELSE [current |-> rt, ret |-> None]

\* lines 326-351: the new cursor and the return value
WalkStep(cur, rt, direction) ==
    LET nd == NormalizeDirection(direction)
        child == IF nd = 0 THEN cur.left ELSE cur.right
    IN  IF child # None
        THEN LET v == child[1]
             IN  IF v.value # None
                 THEN [current |-> rt, ret |-> Some(v.value[1])]
                 ELSE [current |-> v, ret |-> None]
        ELSE [current |-> cur, ret |-> None]

----------------------------------------------------------------------------
(* Inputs                                                                  *)

\* tests::test_prefix: code_lengths
TestTable == <<3, 3, 3, 3, 3, 2, 4, 4>>

\* a complete table: eight codes of length three
UniformTable == <<3, 3, 3, 3, 3, 3, 3, 3>>

Tables ==
    UNION {[1..n -> 0..MaxCodeLen] : n \in 0..MaxSyms}
        \cup {TestTable, UniformTable}

\* the bits of v from bit n-1 down to bit 0
BitsOf(v, n) == [i \in 1..n |-> BitIndex(v, n - i)]

\* tests::test_prefix: bits, and the number of them pushed to the stream
TestBitsValue == 10270959
TestBitsCount == 25
TestStream == BitsOf(TestBitsValue, TestBitsCount)

IsPrefix(s, t) == Len(s) <= Len(t) /\ \A i \in 1..Len(s) : s[i] = t[i]

\* u8 arguments tried for a single-bit operation
BitArgs == {0, 1, 2, 255}

----------------------------------------------------------------------------
(* The program: one session builds a tree and walks it, the other pushes   *)
(* bits into a Code.                                                       *)

InitTree ==
    /\ pc = "start"
    /\ code_lengths \in Tables
    /\ leaves = << >>
    /\ nodes_left = {}
    /\ nodes_right = {}
    /\ node_1 = None
    /\ node_2 = None
    /\ left_sub = None
    /\ root = NodeNew
    /\ current = NodeNew
    /\ bits = << >>
    /\ rets = << >>
    /\ arg = None
    /\ code = CodeNew
    /\ appended = << >>
    /\ fits = TRUE

InitCode ==
    /\ pc = "code"
    /\ code_lengths = << >>
    /\ leaves = << >>
    /\ nodes_left = {}
    /\ nodes_right = {}
    /\ node_1 = None
    /\ node_2 = None
    /\ left_sub = None
    /\ root = NodeNew
    /\ current = NodeNew
    /\ bits = << >>
    /\ rets = << >>
    /\ arg = None
    /\ code = CodeNew
    /\ appended = << >>
    /\ fits = TRUE

Init == InitTree \/ InitCode

\* from_lengths, lines 240-298
AssignCodes ==
    /\ pc = "start"
    /\ LET r == LeafLoop(code_lengths, Codes(code_lengths), Len(code_lengths))
       IN  /\ leaves' = r.leaves
           /\ nodes_left' = r.nodes_left
           /\ nodes_right' = r.nodes_right
    /\ pc' = "collect_left"
    /\ UNCHANGED <<code_lengths, node_1, node_2, left_sub, root, current,
                   bits, rets, arg, codeVars>>

\* collect_from_heap, lines 356-375: one iteration of the while loop, on the
\* heap the call at line 304 or 305 was given
CollectIter ==
    /\ pc \in {"collect_left", "collect_right"}
    /\ LET heap == IF pc = "collect_left" THEN nodes_left ELSE nodes_right
       IN  /\ Cardinality(heap) > 1
           /\ \E n1 \in heap :
                /\ IsGreatest(n1, heap)
                /\ \E n2 \in heap \ {n1} :
                     /\ IsGreatest(n2, heap \ {n1})
                     /\ node_1' = Some(n1)
                     /\ node_2' = Some(n2)
                     /\ LET rest == (heap \ {n1, n2}) \cup {Parent(n1, n2)}
                        IN  IF pc = "collect_left"
                            THEN nodes_left' = rest /\ UNCHANGED nodes_right
                            ELSE nodes_right' = rest /\ UNCHANGED nodes_left
    /\ UNCHANGED <<pc, code_lengths, leaves, left_sub, root, current,
                   bits, rets, arg, codeVars>>

\* collect_from_heap, line 377, and what from_lengths does with the value:
\* line 304 keeps it for root.left; line 305 completes root, and lines
\* 308-312 build the PrefixTree.  unwrap on an empty heap panics.
CollectReturn ==
    /\ pc \in {"collect_left", "collect_right"}
    /\ LET heap == IF pc = "collect_left" THEN nodes_left ELSE nodes_right
       IN  /\ Cardinality(heap) <= 1
           /\ IF heap = {}
              THEN /\ pc' = "panicked"
                   /\ UNCHANGED <<nodes_left, nodes_right, left_sub, root, current>>
              ELSE LET n == CHOOSE x \in heap : TRUE
                   IN  IF pc = "collect_left"
                       THEN /\ pc' = "collect_right"
                            /\ nodes_left' = {}
                            /\ left_sub' = Some(n)
                            /\ UNCHANGED <<nodes_right, root, current>>
                       ELSE /\ pc' = "ready"
                            /\ nodes_right' = {}
                            /\ root' = MkNode(None, 0, CodeNew, left_sub, Some(n))
                            /\ current' = root'
                            /\ UNCHANGED <<nodes_left, left_sub>>
    /\ UNCHANGED <<code_lengths, leaves, node_1, node_2, bits, rets, arg, codeVars>>

\* PrefixTree::walk, called by a loop such as that of tests::test_prefix
Walk(direction) ==
    /\ pc = "ready"
    /\ LET nd == NormalizeDirection(direction)
           r == WalkStep(current, root, direction)
       IN  /\ Len(bits) < MaxWalks \/ IsPrefix(Append(bits, nd), TestStream)
           /\ current' = r.current
           /\ bits' = Append(bits, nd)
           /\ rets' = Append(rets, r.ret)
           /\ arg' = Some(direction)
    /\ UNCHANGED <<pc, code_lengths, leaves, nodes_left, nodes_right, node_1,
                   node_2, left_sub, root, codeVars>>

\* tests::test_code: new_value and the length it is pushed with
TestPushValue == 240
TestPushLen == 8

\* push calls tried: every value of up to MaxPushLen bits with its length, one
\* value too wide for each length, and the push of tests::test_code
PushArgs ==
    {a \in (0..Pow2(MaxPushLen)) \X (0..MaxPushLen) : a[1] <= Pow2(a[2])}
        \cup {<<TestPushValue, TestPushLen>>}

\* Code::push_bit
CodePushBit(bit) ==
    /\ pc = "code"
    /\ code.length + 1 <= MaxBits
    /\ code' = PushBit(code, bit)
    /\ appended' = Append(appended, bit % 2)
    /\ fits' = (fits /\ bit < 2)
    /\ arg' = Some(bit)
    /\ UNCHANGED <<pc, treeVars>>

\* Code::push
CodePush(buffer, length) ==
    /\ pc = "code"
    /\ \/ code.length + length <= MaxBits
       \/ fits /\ appended = <<1, 0>> /\ <<buffer, length>> = <<TestPushValue, TestPushLen>>
    /\ code' = Push(code, buffer, length)
    /\ appended' = appended \o BitsOf(buffer, length)
    /\ fits' = (fits /\ buffer < Pow2(length))
    /\ UNCHANGED <<pc, arg, treeVars>>

Next ==
    \/ AssignCodes
    \/ CollectIter
    \/ CollectReturn
    \/ \E d \in BitArgs : Walk(d)
    \/ \E b \in BitArgs : CodePushBit(b)
    \/ \E a \in PushArgs : CodePush(a[1], a[2])

Spec == Init /\ [][Next]_vars

----------------------------------------------------------------------------
(* walk on PrefixTree values written as struct literals.  The fields of    *)
(* PrefixTree and Node are pub and Node::new() is a childless branch, so a *)
(* caller can hold a tree whose nodes lack children; from_lengths itself   *)
(* never returns one (each branch it builds has both children).            *)

NodeValues == {None, Some(0)}

OptionOf(S) == {None} \cup {Some(n) : n \in S}

\* the nodes whose children are absent or drawn from S
NodesOver(S) ==
    {MkNode(v, 0, CodeNew, l, r) : v \in NodeValues, l \in OptionOf(S), r \in OptionOf(S)}

LiteralRoots == NodesOver(NodesOver(NodesOver({})))

InitWalk ==
    /\ pc = "ready"
    /\ code_lengths = << >>
    /\ leaves = << >>
    /\ nodes_left = {}
    /\ nodes_right = {}
    /\ node_1 = None
    /\ node_2 = None
    /\ left_sub = None
    /\ root \in LiteralRoots
    /\ current = root
    /\ bits = << >>
    /\ rets = << >>
    /\ arg = None
    /\ code = CodeNew
    /\ appended = << >>
    /\ fits = TRUE

NextWalk == \E d \in BitArgs : Walk(d)

SpecWalk == InitWalk /\ [][NextWalk]_vars

----------------------------------------------------------------------------
(* What the specification says the code should compute, stated without     *)
(* the loops of the code.                                                  *)

\* the number of symbols before position k (all of them for k = Len + 1)
\* whose length is len
CountBefore(lens, len, k) == Cardinality({j \in 1..(k - 1) : lens[j] = len})

\* first_code[len] of RFC 1951: lengths of zero consume no code
RECURSIVE FirstCode(_, _)
FirstCode(lens, len) ==
    IF len = 0 THEN 0
    ELSE 2 * (FirstCode(lens, len - 1)
              + (IF len = 1 THEN 0 ELSE CountBefore(lens, len - 1, Len(lens) + 1)))

\* the canonical code of the symbol at position k
CanonicalCode(lens, k) == FirstCode(lens, lens[k]) + CountBefore(lens, lens[k], k)

\* the bits of that code, most significant first
CodeBits(lens, k) == BitsOf(CanonicalCode(lens, k), lens[k])

\* the table is a complete prefix code: the Kraft sum of its nonzero lengths is 1
RECURSIVE KraftSum(_, _)
KraftSum(lens, k) ==
    IF k = 0 THEN 0
    ELSE KraftSum(lens, k - 1)
         + (IF lens[k] = 0 THEN 0 ELSE Pow2(MaxLength(lens) - lens[k]))

CompleteTable(lens) ==
    /\ lens # << >>
    /\ MaxLength(lens) > 0
    /\ KraftSum(lens, Len(lens)) = Pow2(MaxLength(lens))

\* the Some values of a sequence of walk results, in order
RECURSIVE Collected(_)
Collected(rs) ==
    IF rs = << >> THEN << >>
    ELSE (IF Head(rs) = None THEN << >> ELSE Head(rs)) \o Collected(Tail(rs))

\* every node of the tree rooted at n
RECURSIVE NodesOf(_)
NodesOf(n) ==
    {n} \cup (IF n.left = None THEN {} ELSE NodesOf(n.left[1]))
        \cup (IF n.right = None THEN {} ELSE NodesOf(n.right[1]))

\* the child of node n in direction d
Child(n, d) == IF d = 0 THEN n.left ELSE n.right

----------------------------------------------------------------------------
(* The claims.                                                             *)

\* C1: on a tree built from a valid table (here: a complete one, the
\* narrowest reading of "valid prefix-free canonical assignment"), feeding
\* walk, from the root, the bits of the canonical code of a symbol s, most
\* significant first, returns None on every bit but the last and Some(s) on
\* the last.
RoundTrip ==
    (pc = "ready" /\ CompleteTable(code_lengths)) =>
        \A k \in 1..Len(code_lengths) :
            (code_lengths[k] # 0 /\ IsPrefix(bits, CodeBits(code_lengths, k))) =>
                \A i \in 1..Len(bits) :
                    rets[i] = IF i = code_lengths[k] THEN Some(k - 1) ELSE None

\* C3: from_lengths returns a PrefixTree for every table: it never panics.
NoHardFailure == pc # "panicked"

\* C8: on a valid (complete) table, the two nodes an iteration of
\* collect_from_heap pops are siblings: equal code lengths, and code values
\* 2k (second popped) and 2k + 1 (first popped).
SiblingPairing ==
    (CompleteTable(code_lengths) /\ node_1 # None) =>
        /\ node_1[1].code.length = node_2[1].code.length
        /\ node_2[1].code.buffer % 2 = 0
        /\ node_1[1].code.buffer = node_2[1].code.buffer + 1

\* the codes of all symbols of the table, in symbol order, one after another
RECURSIVE ConcatCodes(_, _)
ConcatCodes(lens, k) ==
    IF k = 0 THEN << >>
    ELSE ConcatCodes(lens, k - 1) \o CodeBits(lens, k)

\* push_bit applied to each bit of bs in turn
RECURSIVE PushBits(_, _)
PushBits(c, bs) ==
    IF bs = << >> THEN c ELSE PushBits(PushBit(c, Head(bs)), Tail(bs))

\* C2: once the assignment loops of from_lengths have run, leaves holds, in
\* ascending symbol order, exactly one childless leaf for each symbol of
\* nonzero length len, whose code.buffer and significance are
\* first_code[len] + (number of earlier symbols of length len) and whose
\* code.length is len; symbols of length 0 have no leaf.
CanonicalAssignment ==
    pc \in {"collect_left", "collect_right", "ready", "panicked"} =>
        /\ \A i \in 1..Len(leaves) :
             /\ leaves[i].value # None
             /\ leaves[i].value[1] + 1 \in 1..Len(code_lengths)
             /\ LET k == leaves[i].value[1] + 1
                IN  /\ code_lengths[k] # 0
                    /\ leaves[i].code.buffer = CanonicalCode(code_lengths, k)
                    /\ leaves[i].significance = CanonicalCode(code_lengths, k)
                    /\ leaves[i].code.length = code_lengths[k]
                    /\ leaves[i].left = None
                    /\ leaves[i].right = None
        /\ \A i, j \in 1..Len(leaves) :
             i < j => leaves[i].value[1] < leaves[j].value[1]
        /\ \A k \in 1..Len(code_lengths) :
             code_lengths[k] # 0 =>
                 \E i \in 1..Len(leaves) : leaves[i].value = Some(k - 1)

\* a table with an unused symbol and two symbols of one length has been
\* assigned its codes
CanonicalAssignmentWitness ==
    /\ pc = "collect_left"
    /\ Len(leaves) >= 2
    /\ \E z \in 1..Len(code_lengths) : code_lengths[z] = 0
    /\ \E j, k \in 1..Len(code_lengths) :
         j < k /\ code_lengths[j] # 0 /\ code_lengths[j] = code_lengths[k]

\* C4: whenever a walk call has returned Some(symbol), the cursor equals
\* root right after it, and the following call returns what a call made at
\* the root returns.
CursorReset ==
    pc = "ready" =>
        /\ (rets # << >> /\ rets[Len(rets)] # None) => current = root
        /\ \A i \in 2..Len(rets) :
             rets[i - 1] # None => rets[i] = WalkStep(root, root, bits[i]).ret

\* a symbol was decoded after passing a branch, and a further call was made
CursorResetWitness ==
    /\ pc = "ready"
    /\ Len(rets) >= 3
    /\ rets[1] = None
    /\ rets[2] # None
    /\ bits[2] = 1

\* C5: for the table [3,3,3,3,3,2,4,4], feeding walk the codes of symbols
\* 0..7 one after another, each most significant bit first, and collecting
\* every Some result gives [0,1,2,3,4,5,6,7].
DecodesTestTable ==
    (/\ pc = "ready"
     /\ code_lengths = TestTable
     /\ bits = ConcatCodes(TestTable, Len(TestTable))) =>
        Collected(rets) = <<0, 1, 2, 3, 4, 5, 6, 7>>

\* the 25 bits of the test have all been walked on the tree of the test table
DecodesTestTableWitness ==
    /\ pc = "ready"
    /\ code_lengths = TestTable
    /\ bits = TestStream
    /\ bits = ConcatCodes(TestTable, Len(TestTable))
    /\ Len(rets) = TestBitsCount

\* C6: from every state, walk and push_bit called with any value other than
\* 0 and 1 leave the same state and return the same result as when called
\* with 1.
NonBinaryAsOne ==
    /\ pc = "ready" =>
         LET one == WalkStep(current, root, 1)
         IN  \A b \in 2..255 : WalkStep(current, root, b) = one
    /\ pc = "code" =>
         LET one == PushBit(code, 1)
         IN  \A b \in 2..255 : PushBit(code, b) = one

\* walk was called with 255 below the root and returned a symbol
NonBinaryAsOneWitness ==
    /\ pc = "ready"
    /\ arg = Some(255)
    /\ Len(rets) >= 2
    /\ rets[Len(rets) - 1] = None
    /\ rets[Len(rets)] # None

\* C7: while every pushed value fits its length, length is the number of
\* bits appended and buffer read from bit length-1 down to bit 0 gives the
\* bits in append order; the values of tests::test_code come out; and a push
\* of v with length n equals n push_bit calls with the bits of v, most
\* significant first.
BitAccumulation ==
    (pc = "code" /\ fits) =>
        /\ code.length = Len(appended)
        /\ BitsOf(code.buffer, code.length) = appended
        /\ appended = <<1, 0>> => code = [buffer |-> 2, length |-> 2]
        /\ appended = <<1, 0, 1, 1, 1, 1, 0, 0, 0, 0>> =>
               code = [buffer |-> 752, length |-> 10]
        /\ \A a \in PushArgs :
             a[1] < Pow2(a[2]) =>
                 Push(code, a[1], a[2]) = PushBits(code, BitsOf(a[1], a[2]))

\* the three calls of tests::test_code have been made
BitAccumulationWitness ==
    /\ pc = "code"
    /\ fits
    /\ appended = <<1, 0, 1, 1, 1, 1, 0, 0, 0, 0>>
    /\ code.length = 10

\* C9: after construction and after any walk calls, the cursor is a node of
\* the tree rooted at root, and it is a branch (value None), never a leaf.
CursorInvariant ==
    pc = "ready" =>
        /\ current \in NodesOf(root)
        /\ current.value = None
        /\ current = root \/ current.left # None \/ current.right # None

\* the cursor is parked on a branch two levels below the root
CursorInvariantWitness ==
    /\ pc = "ready"
    /\ Len(bits) = 2
    /\ rets = <<None, None>>
    /\ current # root

\* C10: a walk call made when the cursor has no child in the normalized
\* direction returns None and leaves current, root and leaves as they were.
MissingChildNoOp ==
    [][(/\ pc = "ready"
        /\ bits' # bits
        /\ Child(current, bits'[Len(bits')]) = None) =>
           (/\ rets'[Len(rets')] = None
            /\ current' = current
            /\ root' = root
            /\ leaves' = leaves)]_vars

\* walk was called in both directions on a tree whose root has no children
MissingChildNoOpWitness ==
    /\ pc = "ready"
    /\ root = NodeNew
    /\ current = root
    /\ bits = <<0, 1>>
    /\ rets = <<None, None>>

====
